---- MODULE Spec2Model ----
(***************************************************************************)
(* Model of notebooks/01_preproc_anat.ipynb: the anatomical preprocessing  *)
(* workflow (a nipype Workflow run with the Linear plugin), the path       *)
(* construction of create_file_path, the brain mask of get_brain_and_mask  *)
(* and the label image of write_report.                                    *)
(***************************************************************************)
EXTENDS Integers, Sequences, FiniteSets, TLC

VARIABLES
    files,          \* the anatomical files of the dataset under /data
    subject_list,   \* specs['subject_list']
    session_list,   \* layout.get_sessions(), or [''] when there is none
    n_proc,         \* specs['n_parallel_jobs']
    wf,             \* position in the notebook: "built", "connected", "running", "finished"
    graph,          \* the connections of preproc_anat
    pairs,          \* the expansion of infosource.iterables
    status,         \* status[p][n] of node n for the pair p
    executing,      \* the node instances <<p, n>> the plugin is executing
    runs,           \* runs[p][n]: how often node n was executed for the pair p
    anat,           \* anat[p]: the output of selectfiles for the pair p
    stored,         \* stored[p]: the nodes whose outputs datasink has stored for p
    ipc,            \* position of the image functions: "none", "loaded", "masked", "reported"
    img,            \* the T1w corrected image (in_file), a row of voxels
    segments,       \* the tissue probability maps gm, wm, csf, skull, head
    img_mask,       \* the brain mask before the morphological clean-up
    mask,           \* the brain mask get_brain_and_mask stores
    img_brain,      \* the extracted brain get_brain_and_mask stores
    label_id,       \* the label image of write_report
    spc,            \* position of the datasink naming: "none", "lists", "substitutions"
    subject_order,  \* subject_list as the list the substitutions iterate over
    session_order,  \* session_list as the list the substitutions iterate over
    substitutions,  \* datasink.inputs.substitutions
    sunk            \* sunk[p][o]: the path under which datasink stored output o of pair p

wfvars == <<files, subject_list, session_list, n_proc, wf, graph, pairs,
            status, executing, runs, anat, stored>>

imgvars == <<ipc, img, segments, img_mask, mask, img_brain, label_id>>

sinkvars == <<spc, subject_order, session_order, substitutions, sunk>>

vars == <<wfvars, imgvars, sinkvars>>

-----------------------------------------------------------------------------
(* Bounds *)

MaxPairs == 2
MaxFiles == 2
MaxProc == 2
MaxVoxels == 3
MaxIntensity == 2
Levels == 8

SubjectLabels == <<"01", "02", "03", "04">>
SessionLabels == <<"pre", "post", "late">>

MaxLabels == IF MaxPairs <= 3 THEN MaxPairs ELSE 3

Subjects == {SubjectLabels[i] : i \in 1..MaxLabels}
Sessions == {SessionLabels[i] : i \in 1..MaxLabels}

\* specs['subject_list']: the first k labels, for some k
SubjectLists == {{SubjectLabels[i] : i \in 1..k} : k \in 1..MaxLabels}

\* the session folders of a dataset: none, or the first k labels, for some k
SessionSets == {{SessionLabels[i] : i \in 1..k} : k \in 0..MaxLabels}

\* specs['T1_id']
T1_id == "T1w"

-----------------------------------------------------------------------------
(* Strings *)

StartsWith(s, pre) ==
    Len(pre) <= Len(s) /\ SubSeq(s, 1, Len(pre)) = pre

EndsWith(s, suf) ==
    Len(suf) <= Len(s) /\ SubSeq(s, Len(s) - Len(suf) + 1, Len(s)) = suf

\* the positions at which sub occurs in s
Occurrences(s, sub) ==
    {i \in 1..(Len(s) - Len(sub) + 1) : SubSeq(s, i, i + Len(sub) - 1) = sub}

Contains(s, sub) == Occurrences(s, sub) # {}

LastSlash(s) ==
    LET P == Occurrences(s, "/")
    IN  IF P = {} THEN 0 ELSE CHOOSE i \in P : \A j \in P : j <= i

Dirname(s) == SubSeq(s, 1, LastSlash(s))

Basename(s) == SubSeq(s, LastSlash(s) + 1, Len(s))

-----------------------------------------------------------------------------
(* The dataset: sub-{sub_id}[/ses-{ses_id}]/anat/sub-{sub_id}*{T1_id}*.nii.gz *)

\* a file of the dataset: its subject, its session ("" when the dataset has
\* no session subfolders) and the further name part between them and T1_id
RunLabels == {"", "_run-2"}

CandidateFiles ==
    [sub : Subjects, ses : Sessions \cup {""}, run : RunLabels]

FileName(f) ==
    "sub-" \o f.sub
        \o (IF f.ses = "" THEN "" ELSE "_ses-" \o f.ses)
        \o f.run \o "_" \o T1_id \o ".nii.gz"

FileDir(f) ==
    "/data/sub-" \o f.sub
        \o (IF f.ses = "" THEN "" ELSE "/ses-" \o f.ses)
        \o "/anat/"

FilePath(f) == FileDir(f) \o FileName(f)

\* the documented name pattern sub-{sub_id}*{T1_id}*.nii.gz
MatchesAnat(name, sub) ==
    LET pre == "sub-" \o sub
        suf == ".nii.gz"
    IN  /\ StartsWith(name, pre)
        /\ EndsWith(name, suf)
        /\ \E i \in Occurrences(name, T1_id) :
              /\ i > Len(pre)
              /\ i + Len(T1_id) - 1 <= Len(name) - Len(suf)

\* layout.get_sessions()
get_sessions(fs) == {f.ses : f \in fs} \ {""}

Exists(path) == \E f \in files : FilePath(f) = path

\* the dataset that holds one anatomical image for every subject of subs, in
\* every session folder of sess
CompleteDataset(subs, sess) ==
    [sub : subs, ses : IF sess # {} THEN sess ELSE {""}, run : {""}]

\* session_list: layout.get_sessions(), or [''] when it is empty
SessionList(fs) == IF get_sessions(fs) # {} THEN get_sessions(fs) ELSE {""}

-----------------------------------------------------------------------------
(* create_file_path *)

\* 'sub-{subject_id}[/ses-{session_id}]/anat/sub-{subject_id}[_ses-{session_id}]_{T1_id}.nii.gz'
\* as chunks: a literal followed by an entity; opt marks a [...] chunk
pattern ==
    << [opt |-> FALSE, lit |-> "sub-",       ent |-> "subject_id"],
       [opt |-> TRUE,  lit |-> "/ses-",      ent |-> "session_id"],
       [opt |-> FALSE, lit |-> "/anat/sub-", ent |-> "subject_id"],
       [opt |-> TRUE,  lit |-> "_ses-",      ent |-> "session_id"],
       [opt |-> FALSE, lit |-> "_",          ent |-> "T1_id"],
       [opt |-> FALSE, lit |-> ".nii.gz",    ent |-> ""] >>

\* layout.build_path: a chunk is filled in when its entity is given, and an
\* optional chunk is dropped otherwise (the entities of the other chunks,
\* subject_id and T1_id, are always given)
RECURSIVE build_path(_, _, _)
build_path(entities, pat, i) ==
    IF i > Len(pat) THEN ""
    ELSE LET c == pat[i]
             chunk == IF c.ent = "" THEN c.lit
                      ELSE IF c.ent \in DOMAIN entities
                           THEN c.lit \o entities[c.ent]
                           ELSE ""
         IN  chunk \o build_path(entities, pat, i + 1)

\* the session entity added whether or not the dataset has sessions
entities_always(subject_id, session_id) ==
    ("subject_id" :> subject_id) @@ ("T1_id" :> T1_id)
        @@ ("session_id" :> session_id)

entities_of(subject_id, session_id) ==
    LET base == ("subject_id" :> subject_id) @@ ("T1_id" :> T1_id)
    IN  IF session_id # "" THEN base @@ ("session_id" :> session_id)
        ELSE base

create_file_path(subject_id, session_id) ==
    "/data" \o "/" \o build_path(entities_of(subject_id, session_id), pattern, 1)

-----------------------------------------------------------------------------
(* The workflow preproc_anat *)

Nodes == {"infosource", "selectfiles", "reorient", "cropFOV", "n4", "gunzip",
          "segment", "extract_brain", "antsreg", "create_report", "datasink"}

\* (infosource, selectfiles, ...) and the main part of the workflow
ConnMain ==
    { <<"infosource", "selectfiles">>,
      <<"selectfiles", "reorient">>,
      <<"reorient", "cropFOV">>,
      <<"cropFOV", "n4">>,
      <<"n4", "gunzip">>,
      <<"gunzip", "segment">>,
      <<"segment", "extract_brain">>,
      <<"n4", "extract_brain">>,
      <<"extract_brain", "antsreg">> }

\* store main results in datasink
ConnSink ==
    { <<"n4", "datasink">>,
      <<"segment", "datasink">>,
      <<"extract_brain", "datasink">>,
      <<"antsreg", "datasink">> }

\* create visual report
ConnReport ==
    { <<"infosource", "create_report">>,
      <<"n4", "create_report">>,
      <<"segment", "create_report">>,
      <<"extract_brain", "create_report">>,
      <<"antsreg", "create_report">>,
      <<"create_report", "datasink">> }

\* a connection declared in the wrong direction
ConnectionsReversed ==
    ConnMain \cup ConnSink
        \cup (ConnReport \ {<<"extract_brain", "create_report">>})
        \cup {<<"create_report", "extract_brain">>}

\* the connection (gunzip, segment) left out
ConnectionsNoGunzip ==
    (ConnMain \ {<<"gunzip", "segment">>}) \cup ConnSink \cup ConnReport

\* the connection (antsreg, create_report) left out
ConnectionsNoWarped ==
    ConnMain \cup ConnSink \cup (ConnReport \ {<<"antsreg", "create_report">>})

Connections == ConnMain \cup ConnSink \cup ConnReport

Preds(g, n) == {e[1] : e \in {d \in g : d[2] = n}}

Succs(g, n) == {e[2] : e \in {d \in g : d[1] = n}}

\* the nodes reachable from the nodes of seen, of which those of frontier
\* have not been followed yet
RECURSIVE ReachFrom(_, _, _)
ReachFrom(g, seen, frontier) ==
    IF frontier = {} THEN seen
    ELSE LET next == UNION {Succs(g, n) : n \in frontier} \ seen
         IN  ReachFrom(g, seen \cup next, next)

\* the nodes that depend on n
Descendants(g, n) == ReachFrom(g, Succs(g, n), Succs(g, n))

\* iterables paired position by position instead of crossed
ExpandZip(subs, sess) ==
    {[sub |-> SubjectLabels[i], ses |-> SessionLabels[i]] :
        i \in {j \in 1..MaxLabels :
                  SubjectLabels[j] \in subs /\ j <= Len(SessionLabels)
                  /\ SessionLabels[j] \in sess}}

\* the expansion of infosource.iterables
Expand(subs, sess) == [sub : subs, ses : sess]

\* Registration(num_threads=n_proc)
antsreg_num_threads == n_proc

\* run('MultiProc', plugin_args={'n_procs': n_proc})
MaxRunningMultiProc == n_proc

\* run('Linear'): the plugin runs one node after the other
MaxRunning == 1

Running == {pn \in pairs \X Nodes : status[pn[1]][pn[2]] = "running"}

-----------------------------------------------------------------------------
(* Actions of the workflow *)

\* the naming of datasink is not looked at
NoSink ==
    /\ spc = "none"
    /\ subject_order = <<>>
    /\ session_order = <<>>
    /\ substitutions = <<>>
    /\ sunk = <<>>

\* the workflow as built, before connect
Built ==
    /\ session_list = SessionList(files)
    /\ Cardinality(subject_list) * Cardinality(session_list) <= MaxPairs
    /\ wf = "built"
    /\ graph = {}
    /\ pairs = {}
    /\ status = <<>>
    /\ executing = {}
    /\ runs = <<>>
    /\ anat = <<>>
    /\ stored = <<>>
    /\ ipc = "none"
    /\ img = <<>>
    /\ segments = <<>>
    /\ img_mask = <<>>
    /\ mask = <<>>
    /\ img_brain = <<>>
    /\ label_id = <<>>
    /\ NoSink

\* preproc_anat.connect([...])
Connect ==
    /\ wf = "built"
    /\ graph' = Connections
    /\ wf' = "connected"
    /\ UNCHANGED <<files, subject_list, session_list, n_proc, pairs, status,
                   executing, runs, anat, stored>>
    /\ UNCHANGED imgvars
    /\ UNCHANGED sinkvars

\* preproc_anat.run('Linear'): the iterables are expanded
Run ==
    /\ wf = "connected"
    /\ pairs' = Expand(subject_list, session_list)
    /\ status' = [p \in pairs' |-> [n \in Nodes |-> "pending"]]
    /\ runs' = [p \in pairs' |-> [n \in Nodes |-> 0]]
    /\ anat' = [p \in pairs' |-> ""]
    /\ stored' = [p \in pairs' |-> {}]
    /\ wf' = "running"
    /\ UNCHANGED <<files, subject_list, session_list, n_proc, graph, executing>>
    /\ UNCHANGED imgvars
    /\ UNCHANGED sinkvars

\* the plugin starts a node whose predecessors have all finished
StartNode(p, n) ==
    /\ wf = "running"
    /\ Cardinality(executing) < MaxRunning
    /\ status[p][n] = "pending"
    /\ \A e \in graph : e[2] = n => status[p][e[1]] = "done"
    /\ status' = [status EXCEPT ![p][n] = "running"]
    /\ executing' = executing \cup {<<p, n>>}
    /\ runs' = [runs EXCEPT ![p][n] = @ + 1]
    /\ UNCHANGED <<files, subject_list, session_list, n_proc, wf, graph,
                   pairs, anat, stored>>
    /\ UNCHANGED imgvars
    /\ UNCHANGED sinkvars

\* the node finishes; reorient reads in_file, which has to exist
FinishNode(p, n) ==
    /\ wf = "running"
    /\ <<p, n>> \in executing
    /\ n = "reorient" => Exists(anat[p])
    /\ status' = [status EXCEPT ![p][n] = "done"]
    /\ executing' = executing \ {<<p, n>>}
    /\ anat' = IF n = "selectfiles"
               THEN [anat EXCEPT ![p] = create_file_path(p.sub, p.ses)]
               ELSE anat
    /\ stored' = IF n = "datasink"
                 THEN [stored EXCEPT ![p] = Preds(graph, "datasink")]
                 ELSE stored
    /\ UNCHANGED <<files, subject_list, session_list, n_proc, wf, graph,
                   pairs, runs>>
    /\ UNCHANGED imgvars
    /\ UNCHANGED sinkvars

\* the node crashes (infosource and selectfiles only pass on and format the
\* labels): the nodes that depend on it are not run
CrashNode(p, n) ==
    /\ wf = "running"
    /\ <<p, n>> \in executing
    /\ n \notin {"infosource", "selectfiles"}
    /\ executing' = executing \ {<<p, n>>}
    /\ \E donotrun \in {Descendants(graph, n)} :
          status' = [status EXCEPT ![p] =
                        [m \in Nodes |->
                            IF m = n THEN "failed"
                            ELSE IF m \in donotrun THEN "skipped"
                            ELSE status[p][m]]]
    /\ UNCHANGED <<files, subject_list, session_list, n_proc, wf, graph,
                   pairs, runs, anat, stored>>
    /\ UNCHANGED imgvars
    /\ UNCHANGED sinkvars

\* run returns when no node is left to run
EndRun ==
    /\ wf = "running"
    /\ executing = {}
    /\ \A p \in pairs : \A n \in Nodes : status[p][n] # "pending"
    /\ wf' = "finished"
    /\ UNCHANGED <<files, subject_list, session_list, n_proc, graph, pairs,
                   status, executing, runs, anat, stored>>
    /\ UNCHANGED imgvars
    /\ UNCHANGED sinkvars

Next ==
    \/ Connect
    \/ Run
    \/ \E p \in pairs, n \in Nodes : StartNode(p, n)
    \/ \E pn \in executing : FinishNode(pn[1], pn[2])
    \/ \E pn \in executing : CrashNode(pn[1], pn[2])
    \/ EndRun

\* a dataset that holds the image of every subject of subject_list in every
\* session
Init ==
    /\ subject_list \in SubjectLists
    /\ \E sess \in SessionSets : files = CompleteDataset(subject_list, sess)
    /\ n_proc \in 1..MaxProc
    /\ Built

Spec == Init /\ [][Next]_vars

\* any dataset of at most MaxFiles anatomical files
InitData ==
    /\ subject_list \in SubjectLists
    /\ files \in {fs \in SUBSET CandidateFiles : Cardinality(fs) <= MaxFiles}
    /\ n_proc = 1
    /\ Built

SpecData == InitData /\ [][Next]_vars

-----------------------------------------------------------------------------
(* get_brain_and_mask and write_report *)

\* An image is a row of voxels.  A tissue probability is a level k of
\* 0..Levels and stands for k / Levels.
Tissues == <<"gm", "wm", "csf", "skull", "head">>

\* the result of a comparison in math_img, stored as an integer image
B2I(b) == IF b THEN 1 ELSE 0

\* "(img1 + img2) >= 0.25"
SumAtLeastQuarter(img1, img2) ==
    [v \in DOMAIN img1 |-> B2I(4 * (img1[v] + img2[v]) >= Levels)]

\* "img1 >= 1.0"
AtLeastOne(img1) ==
    [v \in DOMAIN img1 |-> B2I(img1[v] >= Levels)]

\* "(img1 + img2 - img3) > 1.0"
CombineStrict(img1, img2, img3) ==
    [v \in DOMAIN img1 |-> B2I(img1[v] + img2[v] - img3[v] > 1)]

\* "(img1 + img2 - img3) >= 1.0"
Combine(img1, img2, img3) ==
    [v \in DOMAIN img1 |-> B2I(img1[v] + img2[v] - img3[v] >= 1)]

\* the brain mask from the probability tissue maps
MaskFromSegments(segs) ==
    LET img_gmwm == SumAtLeastQuarter(segs.gm, segs.wm)
        img_csf == AtLeastOne(segs.csf)
        img_not_rest == SumAtLeastQuarter(segs.head, segs.skull)
    IN  Combine(img_gmwm, img_csf, img_not_rest)

\* the value of the boolean image m at v, border_value outside of the image
At(m, v, border_value) == IF v \in DOMAIN m THEN m[v] ELSE border_value

\* binary_dilation: a voxel is set when it or a neighbour is (border_value 0)
RECURSIVE binary_dilation(_, _)
binary_dilation(m, iterations) ==
    IF iterations = 0 THEN [v \in DOMAIN m |-> m[v] # 0]
    ELSE LET d == binary_dilation(m, iterations - 1)
         IN  [v \in DOMAIN m |->
                 At(d, v - 1, FALSE) \/ d[v] \/ At(d, v + 1, FALSE)]

\* binary_erosion: a voxel stays when it and its neighbours are set (border_value 0)
RECURSIVE binary_erosion(_, _)
binary_erosion(m, iterations) ==
    IF iterations = 0 THEN m
    ELSE LET d == binary_erosion(m, iterations - 1)
         IN  [v \in DOMAIN m |->
                 At(d, v - 1, FALSE) /\ d[v] /\ At(d, v + 1, FALSE)]

\* the background voxels connected to the border of the image
RECURSIVE Outside(_, _)
Outside(m, seen) ==
    LET next == {v \in DOMAIN m :
                    /\ ~m[v]
                    /\ v \notin seen
                    /\ \/ v - 1 \notin DOMAIN m \/ v + 1 \notin DOMAIN m
                       \/ v - 1 \in seen \/ v + 1 \in seen}
    IN  IF next = {} THEN seen ELSE Outside(m, seen \cup next)

\* binary_fill_holes: the background that is not connected to the border is set
binary_fill_holes(m) ==
    LET out == Outside(m, {})
    IN  [v \in DOMAIN m |-> v \notin out]

\* .astype('int8')
astype_int8(m) == [v \in DOMAIN m |-> B2I(m[v])]

\* "img1 * img2"
Multiply(img1, img2) == [v \in DOMAIN img1 |-> img1[v] * img2[v]]

\* the brain extracted with the mask as it was before the clean-up
get_brain_and_mask_stale(in_img, segs) ==
    LET m0 == MaskFromSegments(segs)
        data_mask == astype_int8(
                        binary_erosion(
                            binary_fill_holes(
                                binary_dilation(m0, 2)), 1))
    IN  [img_mask |-> m0, mask |-> data_mask, out_file |-> Multiply(in_img, m0)]

get_brain_and_mask(in_img, segs) ==
    LET m0 == MaskFromSegments(segs)
        data_mask == astype_int8(
                        binary_erosion(
                            binary_fill_holes(
                                binary_dilation(m0, 2)), 1))
    IN  [img_mask |-> m0, mask |-> data_mask,
         out_file |-> Multiply(in_img, data_mask)]

\* np.stack((zeros, gm, wm, csf, skull, head), axis=-1) at the voxel v
Stack(segs, v) ==
    [k \in 0..5 |-> IF k = 0 THEN 0 ELSE segs[Tissues[k]][v]]

\* an argmax that keeps the last of the maximal entries
RECURSIVE argmax_last(_, _, _)
argmax_last(a, k, best) ==
    IF k \notin DOMAIN a THEN best
    ELSE argmax_last(a, k + 1, IF a[k] >= a[best] THEN k ELSE best)

\* np.argmax: the first of the maximal entries, scanning from index k on
RECURSIVE argmax(_, _, _)
argmax(a, k, best) ==
    IF k \notin DOMAIN a THEN best
    ELSE argmax(a, k + 1, IF a[k] > a[best] THEN k ELSE best)

\* the label image of the tissue segmentation
Labels(segs) ==
    [v \in DOMAIN segs.gm |-> argmax(Stack(segs, v), 1, 0)]

-----------------------------------------------------------------------------
(* Inputs of the image functions *)

Levels0 == 0..Levels

\* every combination of the five probabilities at a voxel
AllProbs == [gm : Levels0, wm : Levels0, csf : Levels0,
             skull : Levels0, head : Levels0]

\* a voxel of one tissue only, or of none
PureProbs ==
    {pr \in [gm : {0, Levels}, wm : {0, Levels}, csf : {0, Levels},
             skull : {0, Levels}, head : {0, Levels}] :
        pr.gm + pr.wm + pr.csf + pr.skull + pr.head <= Levels}

\* images of one voxel take every combination, longer ones pure voxels
ProbsFor(n) == IF n = 1 THEN AllProbs ELSE PureProbs

SegmentsOf(vox) ==
    [gm    |-> [v \in DOMAIN vox |-> vox[v].gm],
     wm    |-> [v \in DOMAIN vox |-> vox[v].wm],
     csf   |-> [v \in DOMAIN vox |-> vox[v].csf],
     skull |-> [v \in DOMAIN vox |-> vox[v].skull],
     head  |-> [v \in DOMAIN vox |-> vox[v].head]]

InitImg ==
    /\ files = {}
    /\ subject_list = {}
    /\ session_list = {}
    /\ n_proc = 1
    /\ wf = "none"
    /\ graph = {}
    /\ pairs = {}
    /\ status = <<>>
    /\ executing = {}
    /\ runs = <<>>
    /\ anat = <<>>
    /\ stored = <<>>
    /\ ipc = "loaded"
    /\ \E n \in 1..MaxVoxels :
          /\ img \in [1..n -> 0..MaxIntensity]
          /\ \E vox \in [1..n -> ProbsFor(n)] : segments = SegmentsOf(vox)
    /\ img_mask = <<>>
    /\ mask = <<>>
    /\ img_brain = <<>>
    /\ label_id = <<>>
    /\ NoSink

\* extract_brain: get_brain_and_mask(in_file, segments)
GetBrainAndMask ==
    /\ ipc = "loaded"
    /\ \E r \in {get_brain_and_mask(img, segments)} :
          /\ img_mask' = r.img_mask
          /\ mask' = r.mask
          /\ img_brain' = r.out_file
    /\ ipc' = "masked"
    /\ UNCHANGED <<img, segments, label_id>>
    /\ UNCHANGED wfvars
    /\ UNCHANGED sinkvars

\* create_report: write_report(sub, sess, n4, segments, brain, ...)
WriteReport ==
    /\ ipc = "masked"
    /\ label_id' = Labels(segments)
    /\ ipc' = "reported"
    /\ UNCHANGED <<img, segments, img_mask, mask, img_brain>>
    /\ UNCHANGED wfvars
    /\ UNCHANGED sinkvars

NextImg ==
    \/ GetBrainAndMask
    \/ WriteReport

SpecImg == InitImg /\ [][NextImg]_vars

-----------------------------------------------------------------------------
(* The naming of the outputs datasink stores *)

\* str.replace(old, new): every occurrence of old, from the left, without overlap
RECURSIVE ReplaceFrom(_, _, _, _)
ReplaceFrom(s, old, new, i) ==
    LET P == {j \in Occurrences(s, old) : j >= i}
    IN  IF P = {} THEN SubSeq(s, i, Len(s))
        ELSE CHOOSE r \in {SubSeq(s, i, j - 1) \o new
                              \o ReplaceFrom(s, old, new, j + Len(old)) :
                           j \in {k \in P : \A l \in P : k <= l}} : TRUE

Replace(str, old, new) ==
    CHOOSE r \in {ReplaceFrom(s, old, new, 1) : s \in {str}} : TRUE

\* the labels a dataset may carry
SinkSubjectLabels == {"01", "02", "03"}
SinkSessionLabels == {"pre", "1", "10"}

\* the lists of at most n different labels of S
Orders(S, n) ==
    {sq \in UNION {[1..k -> S] : k \in 1..n} :
        \A i, j \in 1..Len(sq) : i # j => sq[i] # sq[j]}

Range(sq) == {sq[i] : i \in 1..Len(sq)}

\* for sess in session_list for sub in subject_list: the k-th (sub, sess)
LoopSub(subs, sess, k) == subs[((k - 1) % Len(subs)) + 1]

LoopSess(subs, sess, k) == sess[((k - 1) \div Len(subs)) + 1]

LoopLen(subs, sess) == Len(sess) * Len(subs)

SubstFolder(sub, sess) ==
    << "_session_id_" \o sess \o "_subject_id_" \o sub \o "/",
       "sub-" \o sub \o "/sub-" \o sub \o "_ses-" \o sess \o "_" >>

SubstFixed ==
    << <<"_ras", "">>,
       <<"_ROI", "">>,
       <<"_" \o T1_id \o "_corrected", "">>,
       <<"c1", "seg_gm_">>,
       <<"c2", "seg_wm_">>,
       <<"c3", "seg_csf_">>,
       <<"c4", "seg_skull_">>,
       <<"c5", "seg_head_">>,
       <<"ses-_", "">> >>

SubstDoubleSub(sub) == << "sub-" \o sub \o "_sub-" \o sub, "sub-" \o sub >>

SubstSubSes(sub, sess) == << "_sub-" \o sub \o "_ses-" \o sess, "" >>

SubstSubNii(sub) == << "_sub-" \o sub \o ".nii", ".nii" >>

SubstCorrectedSes(sub, sess) ==
    << "/sub-" \o sub \o "_ses-" \o sess \o ".nii",
       "/sub-" \o sub \o "_ses-" \o sess \o "_T1w_corrected.nii" >>

SubstCorrected(sub, sess) ==
    << "/sub-" \o sub \o ".nii", "/sub-" \o sub \o "_T1w_corrected.nii" >>

\* the list assigned to datasink.inputs.substitutions
Substitutions(subs, sess) ==
    [k \in 1..LoopLen(subs, sess) |->
        SubstFolder(LoopSub(subs, sess, k), LoopSess(subs, sess, k))]
        \o SubstFixed
        \o [i \in 1..Len(subs) |-> SubstDoubleSub(subs[i])]
        \o [k \in 1..LoopLen(subs, sess) |->
               SubstSubSes(LoopSub(subs, sess, k), LoopSess(subs, sess, k))]
        \o [i \in 1..Len(subs) |-> SubstSubNii(subs[i])]
        \o [k \in 1..LoopLen(subs, sess) |->
               SubstCorrectedSes(LoopSub(subs, sess, k), LoopSess(subs, sess, k))]
        \o [k \in 1..LoopLen(subs, sess) |->
               SubstCorrected(LoopSub(subs, sess, k), LoopSess(subs, sess, k))]

\* DataSink applies the substitutions to a path one after the other
RECURSIVE SubstituteFrom(_, _, _)
SubstituteFrom(path, subst, i) ==
    IF i > Len(subst) THEN path
    ELSE CHOOSE r \in {SubstituteFrom(s, subst, i + 1) :
                          s \in {Replace(path, subst[i][1], subst[i][2])}} : TRUE

Substitute(path, subst) == SubstituteFrom(path, subst, 1)

\* the outputs connected to datasink
Outputs == {"n4", "c1", "c2", "c3", "c4", "c5", "brain", "mask",
            "warped_image", "inverse_warped_image", "transform",
            "inverse_transform", "vis_segmentation", "vis_brain", "vis_warp"}

TissueOutputs == {"c1", "c2", "c3", "c4", "c5"}

\* the name of the file a node hands to datasink for the pair (sub, sess)
OutputName(sub, sess, o) ==
    LET anat_name == Basename(create_file_path(sub, sess))
        ras    == Replace(anat_name, ".nii.gz", "_ras.nii.gz")
        roi    == Replace(ras, ".nii.gz", "_ROI.nii.gz")
        n4out  == Replace(roi, ".nii.gz", "_corrected.nii.gz")
        gunzip == SubSeq(n4out, 1, Len(n4out) - 3)
        brain  == Replace(n4out, ".nii", "_brain.nii")
        mask_  == Replace(n4out, ".nii", "_brainmask.nii")
        warped == "transform_Warped.nii.gz"
    IN  CASE o = "n4" -> n4out
          [] o \in TissueOutputs -> o \o gunzip
          [] o = "brain" -> brain
          [] o = "mask" -> mask_
          [] o = "warped_image" -> warped
          [] o = "inverse_warped_image" -> "transform_InverseWarped.nii.gz"
          [] o = "transform" -> "transformComposite.h5"
          [] o = "inverse_transform" -> "transformInverseComposite.h5"
          [] o = "vis_segmentation" -> Replace(brain, "brain.nii.gz", "segmentation.svg")
          [] o = "vis_brain" -> Replace(brain, ".nii.gz", ".svg")
          [] o = "vis_warp" -> Replace(warped, ".nii.gz", ".svg")

\* base_directory/container/preproc_anat
SinkDir == "/data/derivatives" \o "/" \o "fmriflows" \o "/" \o "preproc_anat"

\* the path of an output before the substitutions, with the folder nipype
\* names after the iterables of the pair
Destination(p, o) ==
    SinkDir \o "/" \o "_session_id_" \o p.ses \o "_subject_id_" \o p.sub
        \o "/" \o OutputName(p.sub, p.ses, o)

InitSink ==
    /\ subject_order \in Orders(SinkSubjectLabels, MaxPairs)
    /\ session_order \in Orders(SinkSessionLabels, MaxPairs) \cup {<<"">>}
    /\ Len(subject_order) * Len(session_order) <= MaxPairs
    /\ subject_list = Range(subject_order)
    /\ session_list = Range(session_order)
    /\ pairs = Expand(subject_list, session_list)
    /\ spc = "lists"
    /\ substitutions = <<>>
    /\ sunk = <<>>
    /\ files = {}
    /\ n_proc = 1
    /\ wf = "none"
    /\ graph = {}
    /\ status = <<>>
    /\ executing = {}
    /\ runs = <<>>
    /\ anat = <<>>
    /\ stored = <<>>
    /\ ipc = "none"
    /\ img = <<>>
    /\ segments = <<>>
    /\ img_mask = <<>>
    /\ mask = <<>>
    /\ img_brain = <<>>
    /\ label_id = <<>>

\* datasink.inputs.substitutions = substitutions
SetSubstitutions ==
    /\ spc = "lists"
    /\ substitutions' = Substitutions(subject_order, session_order)
    /\ spc' = "substitutions"
    /\ UNCHANGED <<subject_order, session_order, sunk>>
    /\ UNCHANGED wfvars
    /\ UNCHANGED imgvars

\* datasink stores the outputs of the pair p
DataSinkStore(p) ==
    /\ spc = "substitutions"
    /\ p \notin DOMAIN sunk
    /\ sunk' = [q \in DOMAIN sunk \cup {p} |->
                   IF q = p
                   THEN [o \in Outputs |->
                            Substitute(Destination(p, o), substitutions)]
                   ELSE sunk[q]]
    /\ UNCHANGED <<spc, subject_order, session_order, substitutions>>
    /\ UNCHANGED wfvars
    /\ UNCHANGED imgvars

NextSink ==
    \/ SetSubstitutions
    \/ \E p \in pairs : DataSinkStore(p)

SpecSink == InitSink /\ [][NextSink]_vars

-----------------------------------------------------------------------------
(* Properties of the workflow *)

Acyclic(g) == \A n \in Nodes : n \notin Descendants(g, n)

\* the nodes that depend on a node in the workflow as connected
DependsOn == [m \in Nodes |-> Descendants(Connections, m)]

Started(p, n) == status[p][n] \in {"running", "done", "failed"}

Done(p, n) == status[p][n] = "done"

\* C1: the connections of preproc_anat form a directed acyclic graph over the
\* eleven nodes: connecting the workflow never yields a graph in which a node
\* is reachable from itself along the connections.
C1_Acyclic ==
    /\ Acyclic(graph)
    /\ [][graph' # graph =>
            /\ \A e \in graph' : e[1] \in Nodes /\ e[2] \in Nodes
            /\ Acyclic(graph')]_vars

C1_Witness == wf = "connected" /\ Cardinality(graph) = 19

\* the documented processing steps, in their order
StepOrder == <<"reorient", "cropFOV", "n4", "gunzip", "segment",
               "extract_brain", "antsreg">>

\* C2: for every pair, a processing step has started only if the step before
\* it in the documented order (reorient, cropFOV, n4, gunzip, segment,
\* extract_brain, antsreg) has finished successfully for the same pair.
C2_StepOrder ==
    \A p \in pairs : \A i \in 1..(Len(StepOrder) - 1) :
        Started(p, StepOrder[i + 1]) => Done(p, StepOrder[i])

C2_Witness ==
    \E p \in pairs : \A i \in 1..Len(StepOrder) : Done(p, StepOrder[i])

\* the files of the subjects of subject_list that match the documented pattern
AnatFiles ==
    {f \in files : f.sub \in subject_list /\ MatchesAnat(FileName(f), f.sub)}

Processed(f) ==
    \E p \in pairs : Done(p, "reorient") /\ anat[p] = FilePath(f)

\* C3: after a workflow run, even one in which every node completed, every
\* anatomical file of every subject of subject_list (every file under
\* sub-{sub_id} whose name matches sub-{sub_id}*{T1_id}*.nii.gz) was processed.
C3_AllFilesProcessed ==
    (/\ wf = "finished"
     /\ \A p \in pairs : \A n \in Nodes : Done(p, n))
        => \A f \in AnatFiles : Processed(f)

\* C4: at most one node instance is executing at any time, whatever
\* subject_list, session_list and n_parallel_jobs are.
C4_Sequential == Cardinality(Running) <= 1

C4_Witness ==
    /\ n_proc >= 2
    /\ antsreg_num_threads = n_proc
    /\ \E p, q \in pairs :
          /\ p # q
          /\ status[p]["antsreg"] = "running"
          /\ status[q]["infosource"] = "pending"

\* the path the dataset layout gives the anatomical image of a pair
ExpectedPath(sub, ses) ==
    IF ses # ""
    THEN "/data/sub-" \o sub \o "/ses-" \o ses \o "/anat/sub-" \o sub
             \o "_ses-" \o ses \o "_" \o T1_id \o ".nii.gz"
    ELSE "/data/sub-" \o sub \o "/anat/sub-" \o sub \o "_" \o T1_id \o ".nii.gz"

PathOK(p, path) ==
    /\ path = ExpectedPath(p.sub, p.ses)
    /\ p.ses = "" => ~Contains(path, "ses-")
    /\ Contains(Dirname(path), "/ses-") <=> Contains(Basename(path), "_ses-")

\* C5: the path selectfiles returns for a pair has the session folder and the
\* session part of the file name for a non-empty session_id, has no 'ses-'
\* anywhere for session_id = '', and has the session in its directory part if
\* and only if it has it in its file name.
C5_FilePath ==
    [][\A p \in pairs : anat'[p] # anat[p] => PathOK(p, anat'[p])]_vars

C5_Witness ==
    \E p \in pairs : Done(p, "selectfiles") /\ p.ses = "" /\ Len(anat[p]) > 0

\* C7 as stated: when the run has ended, every node was executed exactly once
\* for every pair of subject_list x session_list.
C7_ExactlyOnce ==
    wf = "finished" =>
        \A sub \in subject_list : \A ses \in session_list :
            \E p \in pairs :
                /\ p = [sub |-> sub, ses |-> ses]
                /\ \A n \in Nodes : runs[p][n] = 1

\* C7 amended: the pairs of a run are exactly subject_list x session_list
\* (session_list being [''] when the dataset has no sessions), no node is
\* executed more than once for a pair, and when the run has ended a node was
\* executed exactly once for a pair unless a node it depends on crashed for
\* that pair, in which case it was not executed.
C7_OncePerPair ==
    /\ get_sessions(files) = {} => session_list = {""}
    /\ wf \in {"running", "finished"} =>
          pairs = {[sub |-> sub, ses |-> ses] :
                      sub \in subject_list, ses \in session_list}
    /\ \A p \in pairs : \A n \in Nodes : runs[p][n] <= 1
    /\ wf = "finished" =>
          \A p \in pairs : \A n \in Nodes :
              IF \E m \in Nodes : n \in DependsOn[m] /\ status[p][m] = "failed"
              THEN runs[p][n] = 0
              ELSE runs[p][n] = 1

C7_Witness ==
    /\ wf = "finished"
    /\ Cardinality(pairs) >= 2
    /\ \E p \in pairs : \A n \in Nodes : runs[p][n] = 1
    /\ \E p \in pairs : \E n \in Nodes : runs[p][n] = 0

\* C8: create_report has started for a pair only if n4, segment,
\* extract_brain and antsreg have completed for it, datasink only if these
\* and create_report have, and datasink has stored only outputs of completed
\* nodes.
C8_ReportAndSink ==
    \A p \in pairs :
        /\ Started(p, "create_report") =>
              \A n \in {"n4", "segment", "extract_brain", "antsreg"} : Done(p, n)
        /\ Started(p, "datasink") =>
              \A n \in {"n4", "segment", "extract_brain", "antsreg",
                        "create_report"} : Done(p, n)
        /\ \A n \in stored[p] : Done(p, n)

C8_Witness ==
    \E p \in pairs :
        /\ Done(p, "datasink")
        /\ stored[p] = {"n4", "segment", "extract_brain", "antsreg", "create_report"}

-----------------------------------------------------------------------------
(* Properties of the image functions *)

Voxels == DOMAIN segments.gm

\* the probabilities at a voxel sum up to at most 1
SumAtMostOne(v) ==
    segments.gm[v] + segments.wm[v] + segments.csf[v]
        + segments.skull[v] + segments.head[v] <= Levels

\* C6: at a voxel whose probabilities sum up to at most 1, the mask before the
\* clean-up is set exactly when (gm + wm >= 0.25 or csf >= 1.0) and
\* skull + head < 0.25; no voxel with skull + head >= 0.25 is in it.
C6_MaskFromSegments ==
    ipc \in {"masked", "reported"} =>
        \A v \in Voxels : SumAtMostOne(v) =>
            /\ img_mask[v] \in {0, 1}
            /\ img_mask[v] = 1 <=>
                  /\ \/ 4 * (segments.gm[v] + segments.wm[v]) >= Levels
                     \/ segments.csf[v] >= Levels
                  /\ 4 * (segments.skull[v] + segments.head[v]) < Levels
            /\ 4 * (segments.skull[v] + segments.head[v]) >= Levels
                  => img_mask[v] = 0

C6_Witness ==
    /\ ipc = "masked"
    /\ \E v \in Voxels :
          /\ SumAtMostOne(v)
          /\ img_mask[v] = 1
          /\ segments.gm[v] > 0 /\ segments.wm[v] > 0
          /\ segments.skull[v] + segments.head[v] > 0

\* C9: the mask get_brain_and_mask stores takes only the values 0 and 1, and
\* the extracted brain equals the bias-corrected input where the mask is 1
\* and is 0 where the mask is 0.
C9_BrainExtraction ==
    ipc \in {"masked", "reported"} =>
        \A v \in DOMAIN img :
            /\ mask[v] \in {0, 1}
            /\ mask[v] = 1 => img_brain[v] = img[v]
            /\ mask[v] = 0 => img_brain[v] = 0

C9_Witness ==
    /\ ipc = "masked"
    /\ \E v, w \in DOMAIN img :
          /\ mask[v] = 1 /\ img[v] > 1
          /\ mask[w] = 0 /\ img[w] > 0 /\ img_mask[w] = 1

\* C10: a voxel gets the label 0 exactly when none of the five tissue
\* probabilities is greater than 0; otherwise it gets the label k in 1..5 of
\* a tissue of maximal probability, the lowest-numbered one on ties.
C10_Labels ==
    ipc = "reported" =>
        \A v \in Voxels :
            LET pr == [k \in 1..5 |-> segments[Tissues[k]][v]]
                l == label_id[v]
            IN  /\ l \in 0..5
                /\ l = 0 <=> \A k \in 1..5 : ~(pr[k] > 0)
                /\ l # 0 =>
                      /\ \A k \in 1..5 : pr[k] <= pr[l]
                      /\ \A k \in 1..5 : pr[k] = pr[l] => l <= k

C10_Witness ==
    /\ ipc = "reported"
    /\ \E v \in Voxels :
          /\ label_id[v] = 2
          /\ segments.wm[v] = segments.skull[v]
          /\ segments.gm[v] > 0
-----------------------------------------------------------------------------
(* Properties of the naming of datasink *)

TissueName == [c1 |-> "seg_gm", c2 |-> "seg_wm", c3 |-> "seg_csf",
               c4 |-> "seg_skull", c5 |-> "seg_head"]

\* sub-{sub}[_ses-{sess}]
NamePrefix(p) ==
    "sub-" \o p.sub \o (IF p.ses = "" THEN "" ELSE "_ses-" \o p.ses)

\* the path follows the naming convention for the output o of the pair p
NamingOK(p, o, path) ==
    /\ Dirname(path) = SinkDir \o "/sub-" \o p.sub \o "/"
    /\ StartsWith(Basename(path), NamePrefix(p) \o "_")
    /\ p.ses = "" => ~Contains(Basename(path), "ses-")
    /\ o = "n4" => Basename(path) = NamePrefix(p) \o "_T1w_corrected.nii.gz"
    /\ o \in TissueOutputs => Contains(Basename(path), TissueName[o])

\* C11: for every subject and session label of subject_list and session_list,
\* every output datasink has stored for a pair (sub, sess) lies in the folder
\* sub-{sub}/ under a name that starts with sub-{sub}_ses-{sess}_ (with
\* sub-{sub}_ and without any 'ses-' when there are no sessions), the
\* bias-corrected image is sub-{sub}[_ses-{sess}]_T1w_corrected.nii.gz, and
\* the tissue maps carry seg_gm, seg_wm, seg_csf, seg_skull and seg_head.
C11_Naming ==
    \A p \in DOMAIN sunk : \A o \in Outputs : NamingOK(p, o, sunk[p][o])
====
